---- MODULE Spec2Model ----
(***************************************************************************)
(* ToastyMills similarity engine (src/src/engine/similarityEngine.js):     *)
(* thesaurus graph construction, breadth-first path search and guess       *)
(* scoring.  Words are sequences of one-character strings so that the      *)
(* normalisation String(x || "").trim().toLowerCase() is computed and not  *)
(* assumed.                                                                *)
(***************************************************************************)
EXTENDS Integers, Sequences, FiniteSets, TLC

VARIABLES
    terms,      \* the term list handed to the engine
    graph,      \* the adjacency list handed to getSimilarityPath
    op,         \* the engine operation that produced result ("idle" before any call)
    wordA,      \* first word argument of the call (word / wordA / guessWord)
    wordB,      \* second word argument of the call (wordB / targetWord)
    result,     \* the value returned by the call
    pc,         \* position of the running getSimilarityPath: "idle", "loop", "done"
    queue,      \* getSimilarityPath: the queue of partial paths
    visited,    \* getSimilarityPath: the visited set
    previous,   \* the call completed before the current one (operation, arguments, result)
    challenge,  \* SimilarityGame: the challenge of the round, null before mount
    guesses,    \* SimilarityGame: the guesses of the round
    totalScore, \* SimilarityGame: the total score
    round,      \* SimilarityGame: the round number
    revealed,   \* SimilarityGame: whether the target word is shown
    hintsShown, \* SimilarityGame: how many hints are shown
    sessionState, \* ToastyChat: the session state { activeId, chats } held by the component
    storage,    \* localStorage item "toastyMills.chatSessions.v1"
    nextId,     \* number of chat ids handed out by makeId
    lastChatCall \* the last call of a chat session function: name, chat id, what it did

gameVars == <<challenge, guesses, totalScore, round, revealed, hintsShown>>
chatVars == <<sessionState, storage, nextId, lastChatCall>>
engineVars == <<terms, graph, op, wordA, wordB, result, pc, queue, visited>>
vars == <<engineVars, previous, gameVars, chatVars>>

----------------------------------------------------------------------------
(* Strings *)

Range(s) == {s[i] : i \in 1..Len(s)}

Includes(s, x) == \E i \in 1..Len(s) : s[i] = x

UpperChars == <<"A", "B", "C", "D", "E", "F", "G", "H", "I", "J">>
LowerChars == <<"a", "b", "c", "d", "e", "f", "g", "h", "i", "j">>

\* String.prototype.toLowerCase on one character
LowerChar(ch) ==
    IF \E i \in 1..Len(UpperChars) : UpperChars[i] = ch
    THEN LowerChars[CHOOSE i \in 1..Len(UpperChars) : UpperChars[i] = ch]
    ELSE ch

ToLowerCase(s) == [i \in 1..Len(s) |-> LowerChar(s[i])]

\* String.prototype.toUpperCase on one character
UpperChar(ch) ==
    IF \E i \in 1..Len(LowerChars) : LowerChars[i] = ch
    THEN UpperChars[CHOOSE i \in 1..Len(LowerChars) : LowerChars[i] = ch]
    ELSE ch

\* String.prototype.split on a one-character separator
RECURSIVE Split(_, _)
Split(s, sep) ==
    IF ~Includes(s, sep) THEN <<s>>
    ELSE LET i == CHOOSE k \in 1..Len(s) : s[k] = sep /\ \A j \in 1..(k - 1) : s[j] # sep
         IN  <<SubSeq(s, 1, i - 1)>> \o Split(SubSeq(s, i + 1, Len(s)), sep)

\* Array.prototype.slice(0, n)
SliceFirst(list, n) == SubSeq(list, 1, IF Len(list) < n THEN Len(list) ELSE n)

\* Array.prototype.join on a one-character separator
RECURSIVE Join(_, _)
Join(parts, sep) ==
    IF parts = <<>> THEN <<>>
    ELSE IF Len(parts) = 1 THEN parts[1]
    ELSE parts[1] \o <<sep>> \o Join(Tail(parts), sep)

IsSpace(ch) == ch \in {" ", "\t"}

RECURSIVE TrimStart(_)
TrimStart(s) ==
    IF s # <<>> /\ IsSpace(Head(s)) THEN TrimStart(Tail(s)) ELSE s

RECURSIVE TrimEnd(_)
TrimEnd(s) ==
    IF s # <<>> /\ IsSpace(s[Len(s)]) THEN TrimEnd(SubSeq(s, 1, Len(s) - 1)) ELSE s

\* String.prototype.trim
Trim(s) == TrimEnd(TrimStart(s))

\* String(x || "").trim().toLowerCase()
Normalize(s) == ToLowerCase(Trim(s))

\* (list || []).map((s) => String(s || "").trim().toLowerCase())
NormalizeAll(list) == [i \in 1..Len(list) |-> Normalize(list[i])]

----------------------------------------------------------------------------
(* buildThesaurusGraph *)

\* if (!graph[k]) graph[k] = new Set()
EnsureKey(g, k) == IF k \in DOMAIN g THEN g ELSE g @@ (k :> <<>>)

\* Set.prototype.add, the set kept in insertion order
SetAdd(s, x) == IF Includes(s, x) THEN s ELSE Append(s, x)

\* mutant of AddSynonym: the reverse edge is forgotten
AddSynonymOneWay(g, word, syn) ==
    LET synWord == Normalize(syn)
    IN  IF synWord = <<>> THEN g
        ELSE EnsureKey([g EXCEPT ![word] = SetAdd(@, synWord)], synWord)

\* the body of the inner forEach over term.synonyms
AddSynonym(g, word, syn) ==
    LET synWord == Normalize(syn)
    IN  IF synWord = <<>> THEN g
        ELSE LET g1 == [g EXCEPT ![word] = SetAdd(@, synWord)]
                 g2 == EnsureKey(g1, synWord)
             IN  [g2 EXCEPT ![synWord] = SetAdd(@, word)]

RECURSIVE AddSynonyms(_, _, _)
AddSynonyms(g, word, syns) ==
    IF syns = <<>> THEN g
    ELSE AddSynonyms(AddSynonym(g, word, Head(syns)), word, Tail(syns))

\* mutant of AddTerm: the antonyms are linked like synonyms
AddTermWithAntonyms(g, term) ==
    LET word == Normalize(term.word)
    IN  IF word = <<>> THEN g
        ELSE AddSynonyms(EnsureKey(g, word), word, term.synonyms \o term.antonyms)

\* the body of the outer forEach over terms
AddTerm(g, term) ==
    LET word == Normalize(term.word)
    IN  IF word = <<>> THEN g
        ELSE AddSynonyms(EnsureKey(g, word), word, term.synonyms)

RECURSIVE AddTerms(_, _)
AddTerms(g, ts) ==
    IF ts = <<>> THEN g ELSE AddTerms(AddTerm(g, Head(ts)), Tail(ts))

EmptyGraph == [k \in {} |-> <<>>]

BuildThesaurusGraph(ts) == AddTerms(EmptyGraph, ts)

----------------------------------------------------------------------------
(* getSimilarityPath *)

\* null, and a returned path
Absent == [isNull |-> TRUE]
PathOf(p) == [isNull |-> FALSE, words |-> p]

\* graph[k] || []
Neighbors(g, k) == IF k \in DOMAIN g THEN g[k] ELSE <<>>

\* the for loop over the neighbors of the last word of path
RECURSIVE ScanNeighbors(_, _, _, _, _)
ScanNeighbors(nbrs, path, b, q, vis) ==
    IF nbrs = <<>> THEN [found |-> FALSE, path |-> <<>>, queue |-> q, visited |-> vis]
    ELSE LET neighbor == Head(nbrs)
         IN  IF neighbor = b
             THEN [found |-> TRUE, path |-> Append(path, b), queue |-> q, visited |-> vis]
             ELSE IF neighbor \notin vis
                  THEN ScanNeighbors(Tail(nbrs), path, b,
                                     Append(q, Append(path, neighbor)), vis \cup {neighbor})
                  ELSE ScanNeighbors(Tail(nbrs), path, b, q, vis)

\* mutant of BfsIteration: queue.pop() for queue.shift(), a depth-first search
BfsIterationPop(q, vis, b, g) ==
    LET path == q[Len(q)]
        current == path[Len(path)]
    IN  ScanNeighbors(Neighbors(g, current), path, b, SubSeq(q, 1, Len(q) - 1), vis)

\* one iteration of the while loop: queue.shift() and the scan of its neighbors
BfsIteration(q, vis, b, g) ==
    LET path == Head(q)
        current == path[Len(path)]
    IN  ScanNeighbors(Neighbors(g, current), path, b, Tail(q), vis)

\* the while loop, run to its end
RECURSIVE BfsLoop(_, _, _, _)
BfsLoop(q, vis, b, g) ==
    IF q = <<>> THEN Absent
    ELSE LET r == BfsIteration(q, vis, b, g)
         IN  IF r.found THEN PathOf(r.path) ELSE BfsLoop(r.queue, r.visited, b, g)

\* mutant of PathEntry: the test that both words are keys is forgotten
PathEntryNoKeyCheck(wA, wB, g) ==
    LET a == Normalize(wA)
        b == Normalize(wB)
    IN  IF a = <<>> \/ b = <<>>
        THEN [done |-> TRUE, value |-> Absent, queue |-> <<>>, visited |-> {}]
        ELSE IF a = b
        THEN [done |-> TRUE, value |-> PathOf(<<a>>), queue |-> <<>>, visited |-> {}]
        ELSE [done |-> FALSE, value |-> Absent, queue |-> << <<a>> >>, visited |-> {a}]

\* mutant of PathEntry: the keys are tested before the two words are compared
PathEntryKeyCheckFirst(wA, wB, g) ==
    LET a == Normalize(wA)
        b == Normalize(wB)
    IN  IF a = <<>> \/ b = <<>>
        THEN [done |-> TRUE, value |-> Absent, queue |-> <<>>, visited |-> {}]
        ELSE IF a \notin DOMAIN g \/ b \notin DOMAIN g
        THEN [done |-> TRUE, value |-> Absent, queue |-> <<>>, visited |-> {}]
        ELSE IF a = b
        THEN [done |-> TRUE, value |-> PathOf(<<a>>), queue |-> <<>>, visited |-> {}]
        ELSE [done |-> FALSE, value |-> Absent, queue |-> << <<a>> >>, visited |-> {a}]

\* the statements before the loop: normalisation, early returns, initial queue
PathEntry(wA, wB, g) ==
    LET a == Normalize(wA)
        b == Normalize(wB)
    IN  IF a = <<>> \/ b = <<>>
        THEN [done |-> TRUE, value |-> Absent, queue |-> <<>>, visited |-> {}]
        ELSE IF a = b
        THEN [done |-> TRUE, value |-> PathOf(<<a>>), queue |-> <<>>, visited |-> {}]
        ELSE IF a \notin DOMAIN g \/ b \notin DOMAIN g
        THEN [done |-> TRUE, value |-> Absent, queue |-> <<>>, visited |-> {}]
        ELSE [done |-> FALSE, value |-> Absent, queue |-> << <<a>> >>, visited |-> {a}]

GetSimilarityPath(wA, wB, g) ==
    LET e == PathEntry(wA, wB, g)
    IN  IF e.done THEN e.value ELSE BfsLoop(e.queue, e.visited, Normalize(wB), g)

----------------------------------------------------------------------------
(* scoreGuess *)

\* terms.find((t) => String(t.word || "").trim().toLowerCase() === w):
\* the index of the first match, 0 for undefined
Find(ts, w) ==
    IF \E i \in 1..Len(ts) : Normalize(ts[i].word) = w
    THEN CHOOSE i \in 1..Len(ts) :
            /\ Normalize(ts[i].word) = w
            /\ \A j \in 1..(i - 1) : Normalize(ts[j].word) # w
    ELSE 0

Min(x, y) == IF x <= y THEN x ELSE y
Max(x, y) == IF x >= y THEN x ELSE y

Connection(type, words) == [type |-> type, words |-> words]

\* targetSyns.filter((s) => guessSyns.includes(s))
Shared(targetSyns, guessSyns) == SelectSeq(targetSyns, LAMBDA x : Includes(guessSyns, x))

\* mutant of SharedScore: the cap of findSimilarities (5 a word, at most 20 over 60)
SharedScoreAsStrength(n) == 60 + Min(n * 5, 20)

\* 50 + Math.min(shared.length * 8, 25)
SharedScore(n) == 50 + Min(n * 8, 25)

\* the branch "else if (guessTerm)" up to its shared-synonym step:
\* the relations read off the guess's own term
GuessRelation(guess, target, guessTerm) ==
    LET guessSyns == NormalizeAll(guessTerm.synonyms)
        guessAnts == NormalizeAll(guessTerm.antonyms)
    IN  IF Includes(guessSyns, target)
        THEN [score |-> 85, connections |-> <<Connection("synonym", <<guess, target>>)>>]
        ELSE IF Includes(guessAnts, target)
        THEN [score |-> 35, connections |-> <<Connection("antonym", <<guess, target>>)>>]
        ELSE [score |-> 0, connections |-> <<>>]

\* the else branch of the guess term: shared synonyms, then same category
IndirectRelation(targetTerm, guessTerm) ==
    LET targetSyns == NormalizeAll(targetTerm.synonyms)
        guessSyns == NormalizeAll(guessTerm.synonyms)
        shared == Shared(targetSyns, guessSyns)
    IN  IF Len(shared) > 0
        THEN [score |-> SharedScore(Len(shared)),
              connections |-> <<Connection("shared synonym", shared)>>]
        ELSE IF guessTerm.category = targetTerm.category
        THEN [score |-> 20,
              connections |-> <<Connection("same category", <<guessTerm.category>>)>>]
        ELSE [score |-> 0, connections |-> <<>>]

\* mutant of Relation: the target's antonyms are looked at before its synonyms
RelationAntonymFirst(guess, target, ts) ==
    LET targetTerm == ts[Find(ts, target)]
        gi == Find(ts, guess)
        targetSyns == NormalizeAll(targetTerm.synonyms)
        targetAnts == NormalizeAll(targetTerm.antonyms)
    IN  IF Includes(targetAnts, guess)
        THEN [score |-> 35, connections |-> <<Connection("antonym", <<guess, target>>)>>]
        ELSE IF Includes(targetSyns, guess)
        THEN [score |-> 85, connections |-> <<Connection("synonym", <<guess, target>>)>>]
        ELSE IF gi # 0
        THEN LET direct == GuessRelation(guess, target, ts[gi])
             IN  IF direct.score # 0 THEN direct ELSE IndirectRelation(targetTerm, ts[gi])
        ELSE [score |-> 0, connections |-> <<>>]

\* mutant of Relation: an antonym of the target counts only when the guess is a term
RelationAntonymNeedsTerm(guess, target, ts) ==
    LET targetTerm == ts[Find(ts, target)]
        gi == Find(ts, guess)
        targetSyns == NormalizeAll(targetTerm.synonyms)
        targetAnts == NormalizeAll(targetTerm.antonyms)
    IN  IF Includes(targetSyns, guess)
        THEN [score |-> 85, connections |-> <<Connection("synonym", <<guess, target>>)>>]
        ELSE IF Includes(targetAnts, guess) /\ gi # 0
        THEN [score |-> 35, connections |-> <<Connection("antonym", <<guess, target>>)>>]
        ELSE IF gi # 0
        THEN LET direct == GuessRelation(guess, target, ts[gi])
             IN  IF direct.score # 0 THEN direct ELSE IndirectRelation(targetTerm, ts[gi])
        ELSE [score |-> 0, connections |-> <<>>]

\* the if / else-if chain on the direct, shared-synonym and category relations;
\* target is the word of a term of ts
Relation(guess, target, ts) ==
    LET targetTerm == ts[Find(ts, target)]
        gi == Find(ts, guess)
        targetSyns == NormalizeAll(targetTerm.synonyms)
        targetAnts == NormalizeAll(targetTerm.antonyms)
    IN  IF Includes(targetSyns, guess)
        THEN [score |-> 85, connections |-> <<Connection("synonym", <<guess, target>>)>>]
        ELSE IF Includes(targetAnts, guess)
        THEN [score |-> 35, connections |-> <<Connection("antonym", <<guess, target>>)>>]
        ELSE IF gi # 0
        THEN LET direct == GuessRelation(guess, target, ts[gi])
             IN  IF direct.score # 0 THEN direct ELSE IndirectRelation(targetTerm, ts[gi])
        ELSE [score |-> 0, connections |-> <<>>]

\* mutant of Feedback: the thresholds are compared with > for >=
FeedbackStrict(score) ==
    IF score > 80 THEN "Very close! Strong connection found."
    ELSE IF score > 60 THEN "Good guess! Related through shared concepts."
    ELSE IF score > 40 THEN "Somewhat related - keep trying!"
    ELSE IF score > 20 THEN "Loosely connected. Think more closely."
    ELSE "No clear connection found. Try a synonym or related concept."

\* the thresholds of the feedback text
Feedback(score) ==
    IF score >= 80 THEN "Very close! Strong connection found."
    ELSE IF score >= 60 THEN "Good guess! Related through shared concepts."
    ELSE IF score >= 40 THEN "Somewhat related - keep trying!"    \* a dash in the source
    ELSE IF score >= 20 THEN "Loosely connected. Think more closely."
    ELSE "No clear connection found. Try a synonym or related concept."

\* mutant of PathScore: the floor of 10 is forgotten
PathScoreNoFloor(len) == 70 - (len - 2) * 15

\* Math.max(10, 70 - (path.length - 2) * 15)
PathScore(len) == Max(10, 70 - (len - 2) * 15)

\* mutant of ScoreWithPath: a path sets the score whatever the relation gave
ScoreWithPathOverrides(guess, target, ts, rel) ==
    LET path == GetSimilarityPath(guess, target, BuildThesaurusGraph(ts))
        connections == IF path.isNull THEN rel.connections
                       ELSE Append(rel.connections, Connection("path", path.words))
        score == IF ~path.isNull THEN PathScore(Len(path.words)) ELSE rel.score
    IN  [score |-> score, feedback |-> Feedback(score), connections |-> connections]

\* mutant of ScoreWithPath: the path is recorded only when no relation scored
ScoreWithPathOnlyUnscored(guess, target, ts, rel) ==
    LET path == GetSimilarityPath(guess, target, BuildThesaurusGraph(ts))
        connections == IF path.isNull \/ rel.score # 0 THEN rel.connections
                       ELSE Append(rel.connections, Connection("path", path.words))
        score == IF ~path.isNull /\ rel.score = 0 THEN PathScore(Len(path.words))
                 ELSE rel.score
    IN  [score |-> score, feedback |-> Feedback(score), connections |-> connections]

\* the graph and path step and the returned record, after the relation chain
ScoreWithPath(guess, target, ts, rel) ==
    LET path == GetSimilarityPath(guess, target, BuildThesaurusGraph(ts))
        connections == IF path.isNull THEN rel.connections
                       ELSE Append(rel.connections, Connection("path", path.words))
        score == IF ~path.isNull /\ rel.score = 0 THEN PathScore(Len(path.words))
                 ELSE rel.score
    IN  [score |-> score, feedback |-> Feedback(score), connections |-> connections]

ExactMatch == [score |-> 100, feedback |-> "Exact match! You got it!", connections |-> <<>>]

TargetNotFound ==
    [score |-> 0, feedback |-> "Target word not found in dictionary.", connections |-> <<>>]

\* mutant of ScoreGuess: the target is looked up before the words are compared
ScoreGuessLookupFirst(guessWord, targetWord, ts) ==
    LET guess == Normalize(guessWord)
        target == Normalize(targetWord)
    IN  IF Find(ts, target) = 0 THEN TargetNotFound
        ELSE IF guess = target THEN ExactMatch
        ELSE ScoreWithPath(guess, target, ts, Relation(guess, target, ts))

\* mutant of ScoreGuess: a target that is no term is scored as a word without
\* relations instead of being reported
ScoreGuessUnknownTargetScored(guessWord, targetWord, ts) ==
    LET guess == Normalize(guessWord)
        target == Normalize(targetWord)
    IN  IF guess = target THEN ExactMatch
        ELSE IF Find(ts, target) = 0
        THEN ScoreWithPath(guess, target, ts, [score |-> 0, connections |-> <<>>])
        ELSE ScoreWithPath(guess, target, ts, Relation(guess, target, ts))

ScoreGuess(guessWord, targetWord, ts) ==
    LET guess == Normalize(guessWord)
        target == Normalize(targetWord)
    IN  IF guess = target THEN ExactMatch
        ELSE IF Find(ts, target) = 0 THEN TargetNotFound
        ELSE ScoreWithPath(guess, target, ts, Relation(guess, target, ts))

----------------------------------------------------------------------------
(* findSimilarities *)

\* a connection label: "synonym", "antonym", "same category", or
\* `shared synonym: ${word}` (kind "shared synonym" with the word it names)
Label(kind, word) == [kind |-> kind, word |-> word]

\* { term, connection, strength }; termIndex is the identity of the term object,
\* its place in the term list
SimilarityResult(ts, i, connection, strength) ==
    [term |-> ts[i], termIndex |-> i, connection |-> connection, strength |-> strength]

\* sourceSyns.filter((s) => lowerSynonyms.includes(s))
SharedSyns(sourceSyns, lowerSynonyms) ==
    SelectSeq(sourceSyns, LAMBDA x : Includes(lowerSynonyms, x))

\* 60 + Math.min(sharedSyns.length * 5, 20)
SharedStrength(n) == 60 + Min(n * 5, 20)

\* mutant of SourceRules: an unknown query word is taken for a term with no
\* synonyms and a blank category
SourceRulesUnknownAsBlank(ts, si, i) ==
    LET sourceSyns == IF si # 0 THEN NormalizeAll(ts[si].synonyms) ELSE <<>>
        sourceCategory == IF si # 0 THEN ts[si].category ELSE <<>>
        sharedSyns == SharedSyns(sourceSyns, NormalizeAll(ts[i].synonyms))
    IN  IF Len(sharedSyns) > 0
        THEN <<SimilarityResult(ts, i, Label("shared synonym", sharedSyns[1]),
                                SharedStrength(Len(sharedSyns)))>>
        ELSE IF ts[i].category = sourceCategory
        THEN <<SimilarityResult(ts, i, Label("same category", <<>>), 30)>>
        ELSE <<>>

\* the block "if (sourceTerm)": shared synonyms, then same category; si is the
\* index of the query's term, 0 when the query is no term
SourceRules(ts, si, i) ==
    IF si = 0 THEN <<>>
    ELSE LET sourceSyns == NormalizeAll(ts[si].synonyms)
             sharedSyns == SharedSyns(sourceSyns, NormalizeAll(ts[i].synonyms))
         IN  IF Len(sharedSyns) > 0
             THEN <<SimilarityResult(ts, i, Label("shared synonym", sharedSyns[1]),
                                     SharedStrength(Len(sharedSyns)))>>
             ELSE IF ts[i].category = ts[si].category
             THEN <<SimilarityResult(ts, i, Label("same category", <<>>), 30)>>
             ELSE <<>>

\* mutant of TermResults: the query's own term is not skipped
TermResultsWithSelf(lowerWord, ts, si, i) ==
    LET termWord == Normalize(ts[i].word)
        lowerSynonyms == NormalizeAll(ts[i].synonyms)
        lowerAntonyms == NormalizeAll(ts[i].antonyms)
    IN  IF termWord = <<>> THEN <<>>
        ELSE IF Includes(lowerSynonyms, lowerWord)
        THEN <<SimilarityResult(ts, i, Label("synonym", <<>>), 90)>>
        ELSE IF Includes(lowerAntonyms, lowerWord)
        THEN <<SimilarityResult(ts, i, Label("antonym", <<>>), 40)>>
        ELSE SourceRules(ts, si, i)

\* the body of terms.forEach: the results the term at index i adds (none or one)
TermResults(lowerWord, ts, si, i) ==
    LET termWord == Normalize(ts[i].word)
        lowerSynonyms == NormalizeAll(ts[i].synonyms)
        lowerAntonyms == NormalizeAll(ts[i].antonyms)
    IN  IF termWord = <<>> THEN <<>>
        ELSE IF termWord = lowerWord THEN <<>>
        ELSE IF Includes(lowerSynonyms, lowerWord)
        THEN <<SimilarityResult(ts, i, Label("synonym", <<>>), 90)>>
        ELSE IF Includes(lowerAntonyms, lowerWord)
        THEN <<SimilarityResult(ts, i, Label("antonym", <<>>), 40)>>
        ELSE SourceRules(ts, si, i)

\* terms.forEach, from index i on
RECURSIVE CollectResults(_, _, _, _)
CollectResults(lowerWord, ts, si, i) ==
    IF i > Len(ts) THEN <<>>
    ELSE TermResults(lowerWord, ts, si, i) \o CollectResults(lowerWord, ts, si, i + 1)

\* mutant of InsertByStrength: a tie goes in front of its equals (an unstable sort)
InsertByStrengthTieFirst(sorted, r) ==
    LET before == SelectSeq(sorted, LAMBDA x : x.strength > r.strength)
        after == SelectSeq(sorted, LAMBDA x : x.strength <= r.strength)
    IN  before \o <<r>> \o after

\* one insertion of the stable sort: r goes behind every result at least as strong
InsertByStrength(sorted, r) ==
    LET before == SelectSeq(sorted, LAMBDA x : x.strength >= r.strength)
        after == SelectSeq(sorted, LAMBDA x : x.strength < r.strength)
    IN  before \o <<r>> \o after

\* results.sort((a, b) => b.strength - a.strength): Array.prototype.sort is stable
RECURSIVE SortByStrength(_, _)
SortByStrength(sorted, rest) ==
    IF rest = <<>> THEN sorted
    ELSE SortByStrength(InsertByStrength(sorted, Head(rest)), Tail(rest))

FindSimilarities(word, ts) ==
    LET lowerWord == Normalize(word)
        si == Find(ts, lowerWord)
    IN  IF lowerWord = <<>> THEN <<>>
        ELSE SortByStrength(<<>>, CollectResults(lowerWord, ts, si, 1))

----------------------------------------------------------------------------
(* generateChallenge *)

\* an uncaught TypeError: the call returns nothing
Thrown == [error |-> "TypeError"]

\* one hint text: the fixed part of the template and the value put into it
Hint(label, value) == [label |-> label, value |-> value]

\* the words of the definition hint: definition.split(" ").slice(0, 5)
HintWords == 5

\* `${target.definition.split(" ").slice(0, 5).join(" ")}...`
DefinitionHint(definition) ==
    Join(SliceFirst(Split(definition, " "), HintWords), " ") \o <<".", ".", ".">>

\* the hints array of the target term
Hints(target) ==
    << Hint("Category: ", target.category),
       Hint("known synonyms", Len(target.synonyms)),
       Hint("First letter: ", UpperChar(target.word[1])),
       Hint("Definition hint: ", DefinitionHint(target.definition)) >>

\* maxGuesses: 5
ChallengeMaxGuesses == 5

\* mutant of GenerateChallenge: the target word is returned normalized and
\* the definition hint is left out
GenerateChallengeShort(ts, idx) ==
    IF idx + 1 \notin 1..Len(ts) THEN Thrown
    ELSE LET target == ts[idx + 1]
         IN  IF target.word = <<>> THEN Thrown
             ELSE [targetWord |-> Normalize(target.word),
                   hints |-> SubSeq(Hints(target), 1, 3),
                   maxGuesses |-> ChallengeMaxGuesses]

\* mutant of GenerateChallenge: an empty term list gives a challenge without
\* a target
GenerateChallengeNoThrow(ts, idx) ==
    IF idx + 1 \notin 1..Len(ts)
    THEN [targetWord |-> <<>>, hints |-> <<>>, maxGuesses |-> ChallengeMaxGuesses]
    ELSE LET target == ts[idx + 1]
         IN  IF target.word = <<>> THEN Thrown
             ELSE [targetWord |-> target.word,
                   hints |-> Hints(target),
                   maxGuesses |-> ChallengeMaxGuesses]

\* mutant of GenerateChallenge: the category hint stands in for the target word
GenerateChallengeCategoryTarget(ts, idx) ==
    IF idx + 1 \notin 1..Len(ts) THEN Thrown
    ELSE LET target == ts[idx + 1]
         IN  IF target.word = <<>> THEN Thrown
             ELSE [targetWord |-> target.category,
                   hints |-> Hints(target),
                   maxGuesses |-> ChallengeMaxGuesses]

\* generateChallenge(terms) with idx the value of
\* Math.floor(Math.random() * terms.length): terms[idx] is undefined for an
\* empty list and target.word[0] is undefined for an empty word, and reading a
\* property of undefined throws
GenerateChallenge(ts, idx) ==
    IF idx + 1 \notin 1..Len(ts) THEN Thrown
    ELSE LET target == ts[idx + 1]
         IN  IF target.word = <<>> THEN Thrown
             ELSE [targetWord |-> target.word,
                   hints |-> Hints(target),
                   maxGuesses |-> ChallengeMaxGuesses]

\* the values Math.floor(Math.random() * terms.length) can take
RandomIndexes(ts) == IF ts = <<>> THEN {0} ELSE 0..(Len(ts) - 1)

----------------------------------------------------------------------------
(* Inputs of the engine: term lists *)

W(c) == <<c>>

Term(word, synonyms, antonyms, category) ==
    [word |-> word, definition |-> <<>>, category |-> category,
     synonyms |-> synonyms, antonyms |-> antonyms]

\* most terms of a list drawn from TermPool
MaxTerms == 2
\* most terms of a chain of synonyms
MaxChain == 7
\* most synonyms of the two terms of a list of WideTermLists
MaxShared == 4

\* written forms of the words a and b
PoolWords == {W("a"), <<"B", " ">>}

\* synonym lists over a, b, c: empty, one word, a word written twice, two words
\* around a blank entry
PoolSynonyms ==
    {<<>>, <<W("b")>>, <<W("c"), <<"C", " ">>>>, <<<<"A", " ">>, <<" ">>, W("c")>>}

\* antonym list and category of a pool term
PoolAntonymsCategory ==
    {<< <<>>, W("x") >>, << <<>>, W("y") >>, << <<W("a"), W("B")>>, W("x") >>}

\* a term whose word is blank
BlankTerm == Term(<<" ">>, <<W("b")>>, <<W("a")>>, W("x"))

TermPool ==
    {Term(w, s, ac[1], ac[2]) : w \in PoolWords, s \in PoolSynonyms, ac \in PoolAntonymsCategory}
    \cup {BlankTerm}

PoolTermLists == UNION {[1..n -> TermPool] : n \in 0..MaxTerms}

Letters == <<"a", "b", "c", "d", "e", "f", "g", "h", "i", "j">>

\* a chain of k terms: term i lists term i+1 (dir "fwd"), term i-1 ("back") or
\* both ("both") as synonyms; categories all blank, or each term its own
ChainSynonyms(i, k, dir) ==
    (IF dir \in {"back", "both"} /\ i > 1 THEN <<W(Letters[i - 1])>> ELSE <<>>)
    \o (IF dir \in {"fwd", "both"} /\ i < k THEN <<W(Letters[i + 1])>> ELSE <<>>)

Chain(k, dir, ownCategory) ==
    [i \in 1..k |->
        Term(W(Letters[i]), ChainSynonyms(i, k, dir), <<>>,
             IF ownCategory THEN W(Letters[i]) ELSE <<>>)]

ChainTermLists ==
    {Chain(k, dir, own) : k \in 1..MaxChain, dir \in {"fwd", "back", "both"}, own \in BOOLEAN}

\* two terms a and b of different categories listing the first n and the first m
\* of the words c, d, e, ... as synonyms
Wide(n, m) ==
    << Term(W("a"), [i \in 1..n |-> W(Letters[i + 2])], <<>>, W("x")),
       Term(W("b"), [i \in 1..m |-> W(Letters[i + 2])], <<>>, W("y")) >>

WideTermLists == {Wide(n, m) : n \in 0..MaxShared, m \in 0..MaxShared}

\* three terms with definitions: a (synonym b, antonym c), "B " (synonyms a, d;
\* a definition with a double blank) and c (synonym d, antonym a, no definition)
DefinedTerms ==
    << [Term(W("a"), <<W("b")>>, <<W("c")>>, W("x"))
           EXCEPT !.definition = <<"a", " ", "b", " ", "c", " ", "d", " ", "e", " ", "f">>],
       [Term(<<"B", " ">>, <<W("a"), W("d")>>, <<>>, W("y"))
           EXCEPT !.definition = <<"a", " ", " ", "b">>],
       Term(W("c"), <<W("d")>>, <<W("a")>>, W("x")) >>

DefinedTermLists == {DefinedTerms, SubSeq(DefinedTerms, 1, 1), SubSeq(DefinedTerms, 2, 3)}

TermLists == PoolTermLists \cup ChainTermLists \cup WideTermLists \cup DefinedTermLists

\* the words a caller asks about: the words of the terms, a word that is no
\* term, an upper-case spelling, the empty string
QueryWords(ts) ==
    {ts[i].word : i \in 1..Len(ts)} \cup {W("c"), <<" ", "B">>, <<>>}

\* no call completed yet
NoCall == [op |-> "idle", wordA |-> <<>>, wordB |-> <<>>, result |-> Absent]

\* the SimilarityGame component before it is mounted: the useState defaults
GameIdle ==
    /\ challenge = Absent
    /\ guesses = <<>>
    /\ totalScore = 0
    /\ round = 1
    /\ revealed = FALSE
    /\ hintsShown = 1

\* no chat session function called yet
NoChatCall == [fn |-> "none", chatId |-> 0, inStep |-> FALSE, saved |-> FALSE]

\* the chat component before its first render
ChatIdle ==
    /\ sessionState = Absent
    /\ storage = Absent
    /\ nextId = 0
    /\ lastChatCall = NoChatCall

Init ==
    /\ terms \in TermLists
    /\ graph = EmptyGraph
    /\ op = "idle"
    /\ wordA = <<>>
    /\ wordB = <<>>
    /\ result = Absent
    /\ pc = "idle"
    /\ queue = <<>>
    /\ visited = {}
    /\ previous = NoCall
    /\ GameIdle
    /\ ChatIdle

\* buildThesaurusGraph(terms)
CallBuildThesaurusGraph ==
    /\ op = "idle"
    /\ op' = "buildThesaurusGraph"
    /\ result' = BuildThesaurusGraph(terms)
    /\ UNCHANGED <<terms, graph, wordA, wordB, pc, queue, visited, previous, gameVars, chatVars>>

\* scoreGuess(guessWord, targetWord, terms)
CallScoreGuess(guessWord, targetWord) ==
    /\ op = "idle"
    /\ op' = "scoreGuess"
    /\ wordA' = guessWord
    /\ wordB' = targetWord
    /\ result' = ScoreGuess(guessWord, targetWord, terms)
    /\ UNCHANGED <<terms, graph, pc, queue, visited, previous, gameVars, chatVars>>

\* mutant of CallFindSimilarities: the term list itself is sorted in place, the
\* matching terms first
CallFindSimilaritiesSortsTerms(word) ==
    /\ op = "idle"
    /\ op' = "findSimilarities"
    /\ wordA' = word
    /\ result' = FindSimilarities(word, terms)
    /\ terms' = [i \in 1..Len(result') |-> result'[i].term]
                 \o SelectSeq(terms, LAMBDA t : \A i \in 1..Len(result') : result'[i].term # t)
    /\ UNCHANGED <<graph, wordB, pc, queue, visited, previous, gameVars, chatVars>>

\* findSimilarities(word, terms)
CallFindSimilarities(word) ==
    /\ op = "idle"
    /\ op' = "findSimilarities"
    /\ wordA' = word
    /\ result' = FindSimilarities(word, terms)
    /\ UNCHANGED <<terms, graph, wordB, pc, queue, visited, previous, gameVars, chatVars>>

\* generateChallenge(terms), idx the index drawn
CallGenerateChallenge(idx) ==
    /\ op = "idle"
    /\ op' = "generateChallenge"
    /\ result' = GenerateChallenge(terms, idx)
    /\ UNCHANGED <<terms, graph, wordA, wordB, pc, queue, visited, previous, gameVars, chatVars>>

Next ==
    \/ CallBuildThesaurusGraph
    \/ \E g \in QueryWords(terms), t \in QueryWords(terms) : CallScoreGuess(g, t)
    \/ \E w \in QueryWords(terms) : CallFindSimilarities(w)
    \/ \E idx \in RandomIndexes(terms) : CallGenerateChallenge(idx)

Spec == Init /\ [][Next]_vars

----------------------------------------------------------------------------
(* Inputs of the path search: hand-built graphs over a few words *)

\* longest neighbor list of a hand-built graph
MaxNbrs == 2

Nodes == {W("a"), W("b"), W("c")}

\* neighbor lists without repetition, at most MaxNbrs long
NbrLists ==
    UNION {{s \in [1..n -> Nodes] : \A i, j \in 1..n : i # j => s[i] # s[j]} : n \in 0..MaxNbrs}

HandGraphs == UNION {[K -> NbrLists] : K \in SUBSET Nodes}

\* a ring of k terms: the chain closed by an edge from the last term to the first
Ring(k) ==
    [i \in 1..k |->
        Term(W(Letters[i]), <<W(Letters[IF i = k THEN 1 ELSE i + 1])>>, <<>>, <<>>)]

\* the graphs of chains and rings of terms, as buildThesaurusGraph returns them
BuiltGraphs ==
    {BuildThesaurusGraph(ts) : ts \in ChainTermLists \cup {Ring(k) : k \in 1..MaxChain}}

Graphs == HandGraphs \cup BuiltGraphs

\* raw words handed to getSimilarityPath: the keys of the graph, the words a, b
\* and c, an upper-case spelling, a word of no graph, a blank string
PathWords(g) == DOMAIN g \cup Nodes \cup {<<" ", "A">>, <<"z">>, <<" ">>}

InitPath ==
    /\ terms = <<>>
    /\ graph \in Graphs
    /\ op = "path"
    /\ wordA = <<>>
    /\ wordB = <<>>
    /\ result = Absent
    /\ pc = "idle"
    /\ queue = <<>>
    /\ visited = {}
    /\ previous = NoCall
    /\ GameIdle
    /\ ChatIdle

\* getSimilarityPath(wA, wB, graph) up to the while loop
PathStart(wA, wB) ==
    /\ pc = "idle"
    /\ LET e == PathEntry(wA, wB, graph)
       IN  /\ pc' = IF e.done THEN "done" ELSE "loop"
           /\ result' = e.value
           /\ queue' = e.queue
           /\ visited' = e.visited
    /\ wordA' = wA
    /\ wordB' = wB
    /\ UNCHANGED <<terms, graph, op, previous, gameVars, chatVars>>

\* one iteration of the while loop, or its exit when the queue is empty
PathStep ==
    /\ pc = "loop"
    /\ IF queue = <<>>
       THEN /\ pc' = "done"
            /\ result' = Absent
            /\ UNCHANGED <<queue, visited>>
       ELSE LET r == BfsIteration(queue, visited, Normalize(wordB), graph)
            IN  /\ pc' = IF r.found THEN "done" ELSE "loop"
                /\ result' = IF r.found THEN PathOf(r.path) ELSE Absent
                /\ queue' = r.queue
                /\ visited' = r.visited
    /\ UNCHANGED <<terms, graph, op, wordA, wordB, previous, gameVars, chatVars>>

NextPath ==
    \/ \E wA \in PathWords(graph), wB \in PathWords(graph) : PathStart(wA, wB)
    \/ PathStep

\* the loop is synchronous code: once entered it keeps running
SpecPath == InitPath /\ [][NextPath]_vars /\ WF_vars(PathStep)

----------------------------------------------------------------------------
(* Calls in sequence: the engine called again and again on one term list *)

\* the empty list, the lists with definitions, and two terms with n synonyms each
CallTermLists == {<<>>} \cup DefinedTermLists \cup {Wide(n, n) : n \in 0..MaxShared}

\* the graph is the one the caller built from the term list
InitCalls ==
    /\ terms \in CallTermLists
    /\ graph = BuildThesaurusGraph(terms)
    /\ op = "idle"
    /\ wordA = <<>>
    /\ wordB = <<>>
    /\ result = Absent
    /\ pc = "idle"
    /\ queue = <<>>
    /\ visited = {}
    /\ previous = NoCall
    /\ GameIdle
    /\ ChatIdle

\* getSimilarityPath(wA, wB, graph), run to its return
CallGetSimilarityPath(wA, wB) ==
    /\ op = "idle"
    /\ op' = "getSimilarityPath"
    /\ wordA' = wA
    /\ wordB' = wB
    /\ result' = GetSimilarityPath(wA, wB, graph)
    /\ UNCHANGED <<terms, graph, pc, queue, visited, previous, gameVars, chatVars>>

\* the call has returned: the caller keeps its value and may call again
Return ==
    /\ op # "idle"
    /\ previous' = [op |-> op, wordA |-> wordA, wordB |-> wordB, result |-> result]
    /\ op' = "idle"
    /\ wordA' = <<>>
    /\ wordB' = <<>>
    /\ result' = Absent
    /\ UNCHANGED <<terms, graph, pc, queue, visited, gameVars, chatVars>>

NextCalls ==
    \/ CallBuildThesaurusGraph
    \/ \E g \in QueryWords(terms), t \in QueryWords(terms) : CallScoreGuess(g, t)
    \/ \E w \in QueryWords(terms) : CallFindSimilarities(w)
    \/ \E idx \in RandomIndexes(terms) : CallGenerateChallenge(idx)
    \/ \E wA \in QueryWords(terms), wB \in QueryWords(terms) : CallGetSimilarityPath(wA, wB)
    \/ Return

SpecCalls == InitCalls /\ [][NextCalls]_vars

----------------------------------------------------------------------------
(* SimilarityGame (src/unnamed/part_001): rounds of guesses on a challenge *)

\* const MAX_GUESSES = 5
MAX_GUESSES == 5

\* most rounds played
MaxRounds == 2

\* the term lists the component is rendered with: none, one and two terms
GameTermLists == {<<>>, SubSeq(DefinedTerms, 1, 1), SubSeq(DefinedTerms, 2, 3)}

\* the texts typed into the guess input: the words of the terms, a word of no
\* term, a spelling of a with a capital and a blank, a blank text
GuessInputs(ts) ==
    {ts[i].word : i \in 1..Len(ts)} \cup {W("z"), <<"A", " ">>, <<" ">>}

\* the component before its first effect; graph is useMemo(buildThesaurusGraph)
InitGame ==
    /\ terms \in GameTermLists
    /\ graph = BuildThesaurusGraph(terms)
    /\ op = "game"
    /\ wordA = <<>>
    /\ wordB = <<>>
    /\ result = Absent
    /\ pc = "idle"
    /\ queue = <<>>
    /\ visited = {}
    /\ previous = NoCall
    /\ GameIdle
    /\ ChatIdle

\* startNewChallenge with idx the index drawn; a throw of generateChallenge
\* leaves the state as it was
StartNewChallenge(idx) ==
    LET c == GenerateChallenge(terms, idx)
    IN  IF c = Thrown
        THEN UNCHANGED <<challenge, guesses, revealed, hintsShown>>
        ELSE /\ challenge' = c
             /\ guesses' = <<>>
             /\ revealed' = FALSE
             /\ hintsShown' = 1

\* the effect run once after the first render
Mount(idx) ==
    /\ challenge = Absent
    /\ StartNewChallenge(idx)
    /\ UNCHANGED <<totalScore, round, engineVars, previous, chatVars>>

\* handleNewRound: the "New Challenge" button, rendered while revealed
HandleNewRound(idx) ==
    /\ challenge # Absent
    /\ revealed
    /\ round < MaxRounds
    /\ round' = round + 1
    /\ StartNewChallenge(idx)
    /\ UNCHANGED <<totalScore, engineVars, previous, chatVars>>

\* mutant of OutOfGuesses: one guess more is allowed
OutOfGuessesStrict(updatedGuesses) == Len(updatedGuesses) > MAX_GUESSES

\* updatedGuesses.length >= MAX_GUESSES
OutOfGuesses(updatedGuesses) == Len(updatedGuesses) >= MAX_GUESSES

\* mutant of UnlockHint: no cap at the number of hints
UnlockHintUncapped(h, c) == h + 1

\* Math.min(h + 1, challenge.hints.length)
UnlockHint(h, c) == Min(h + 1, Len(c.hints))

RECURSIVE SumScores(_)
SumScores(gs) == IF gs = <<>> THEN 0 ELSE Head(gs).score + SumScores(Tail(gs))

\* mutant of AddScore: every guess of the round counts
AddScoreOfRound(s, updatedGuesses) == s + SumScores(updatedGuesses)

\* setTotalScore((s) => s + result.score), result being the last guess
AddScore(s, updatedGuesses) == s + updatedGuesses[Len(updatedGuesses)].score

\* handleGuess with the text of the input field
HandleGuess(input) ==
    IF Trim(input) = <<>> \/ challenge = Absent \/ revealed
    THEN UNCHANGED vars
    ELSE LET res == ScoreGuess(Trim(input), challenge.targetWord, terms)
             path == GetSimilarityPath(ToLowerCase(Trim(input)),
                                       ToLowerCase(challenge.targetWord), graph)
             newGuess == [word |-> Trim(input), score |-> res.score,
                          feedback |-> res.feedback, connections |-> res.connections,
                          path |-> path]
             updatedGuesses == Append(guesses, newGuess)
             isExact == res.score = 100
         IN  /\ guesses' = updatedGuesses
             /\ IF isExact \/ OutOfGuesses(updatedGuesses)
                THEN /\ revealed' = TRUE
                     /\ totalScore' = AddScore(totalScore, updatedGuesses)
                     /\ UNCHANGED hintsShown
                ELSE /\ hintsShown' = UnlockHint(hintsShown, challenge)
                     /\ UNCHANGED <<revealed, totalScore>>
             /\ UNCHANGED <<challenge, round, engineVars, previous, chatVars>>

\* the hints rendered: challenge.hints.slice(0, hintsShown)
HintsRendered == SubSeq(challenge.hints, 1, Min(hintsShown, Len(challenge.hints)))

NextGame ==
    \/ \E idx \in RandomIndexes(terms) : Mount(idx)
    \/ \E input \in GuessInputs(terms) : HandleGuess(input)
    \/ \E idx \in RandomIndexes(terms) : HandleNewRound(idx)

SpecGame == InitGame /\ [][NextGame]_vars

----------------------------------------------------------------------------
(* Chat sessions (src/unnamed/part_006): the session list kept in localStorage *)

\* Chat ids are numbers: makeId hands out 1, 2, ... (a time stamp and a random
\* suffix in the source, taken as fresh); 0 stands for a missing or empty id.
\* nowIso() is the one value "now".  Titles and message texts are sequences of
\* characters.

\* most chats of a session list when createChat is called, and most ids
\* handed out by makeId before it
MaxChats == 2

\* defaultTitle(): "New chat"
DefaultTitle == <<"N", "e", "w", " ", "c", "h", "a", "t">>

\* defaultSettings()
DefaultSettings == [thinkingEffort |-> "standard"]

\* slice(0, 42)
TitleMax == 42

Now == "now"

\* a value that may be an array, and a value that may be an object
Array(items) == [isArray |-> TRUE, items |-> items]
NotArray == [isArray |-> FALSE, items |-> <<>>]
Object(settings) == [isObject |-> TRUE, value |-> settings]
NotObject == [isObject |-> FALSE, value |-> DefaultSettings]

\* WELCOME_MESSAGES
WelcomeMessages ==
    Array(<< [role |-> "system", text |-> <<"o", "n">>],
             [role |-> "assistant", text |-> <<"h", "e", "y">>] >>)

\* Array.isArray(welcomeMessages) ? welcomeMessages : []
ArrayOrEmpty(a) == IF a.isArray THEN a.items ELSE <<>>

\* a chat as parsed from JSON: any field may be missing (id 0, empty title,
\* empty time, messages no array, settings no object)
RawChat(id, title, createdAt, messages, settings) ==
    [id |-> id, title |-> title, createdAt |-> createdAt, updatedAt |-> createdAt,
     messages |-> messages, settings |-> settings]

\* JSON.parse(JSON.stringify(chat))
RawOfChat(chat) ==
    [id |-> chat.id, title |-> chat.title, createdAt |-> chat.createdAt,
     updatedAt |-> chat.updatedAt, messages |-> Array(chat.messages),
     settings |-> Object(chat.settings)]

\* the item of localStorage: none, a text that is no JSON, the JSON text null,
\* or the JSON text of an object { activeId, chats }
NoItem == [kind |-> "none"]
BadText == [kind |-> "text"]
JsonNull == [kind |-> "null"]
JsonObject(activeId, chats) == [kind |-> "json", value |-> [activeId |-> activeId, chats |-> chats]]

\* localStorage.setItem(KEY, JSON.stringify(state)), as read back by JSON.parse
Stored(state) ==
    JsonObject(state.activeId,
               Array([i \in 1..Len(state.chats) |-> RawOfChat(state.chats[i])]))

\* normalizeChat(chat, welcomeMessages) with id the value makeId() returns
NormalizeChat(chat, welcomeMessages, id) ==
    LET createdAt == IF chat.createdAt # "" THEN chat.createdAt ELSE Now
        updatedAt == IF chat.updatedAt # "" THEN chat.updatedAt ELSE createdAt
    IN  [id |-> IF chat.id # 0 THEN chat.id ELSE id,
         title |-> IF chat.title # <<>> THEN chat.title ELSE DefaultTitle,
         createdAt |-> createdAt,
         updatedAt |-> updatedAt,
         messages |-> IF chat.messages.isArray THEN chat.messages.items
                      ELSE ArrayOrEmpty(welcomeMessages),
         settings |-> IF chat.settings.isObject THEN chat.settings.value
                      ELSE DefaultSettings]

\* rawChats.map((c) => normalizeChat(c, welcomeMessages)): the chats and the
\* number of ids handed out
RECURSIVE NormalizeChats(_, _, _)
NormalizeChats(rawChats, welcomeMessages, nid) ==
    IF rawChats = <<>> THEN [chats |-> <<>>, nextId |-> nid]
    ELSE LET used == IF Head(rawChats).id # 0 THEN nid ELSE nid + 1
             rest == NormalizeChats(Tail(rawChats), welcomeMessages, used)
         IN  [chats |-> <<NormalizeChat(Head(rawChats), welcomeMessages, nid + 1)>> \o rest.chats,
              nextId |-> rest.nextId]

\* a chat made by loadChatSessions or createChat
FreshChat(id, welcomeMessages) ==
    [id |-> id, title |-> DefaultTitle, createdAt |-> Now, updatedAt |-> Now,
     messages |-> ArrayOrEmpty(welcomeMessages), settings |-> DefaultSettings]

ChatIds(state) == {state.chats[i].id : i \in 1..Len(state.chats)}

\* what a session function hands back: the returned state, the item of
\* localStorage, the ids handed out, and whether setItem was called
Outcome(state, item, nid, saved) ==
    [state |-> state, storage |-> item, nextId |-> nid, saved |-> saved]

\* loadChatSessions(welcomeMessages): safeParse gives {} for no item and for a
\* text that is no JSON; for the JSON text null, parsed.chats throws
LoadChatSessions(welcomeMessages, item, nid) ==
    IF item.kind = "null" THEN Thrown
    ELSE LET parsed == IF item.kind = "json" THEN item.value
                       ELSE [activeId |-> 0, chats |-> NotArray]
             n == NormalizeChats(ArrayOrEmpty(parsed.chats), welcomeMessages, nid)
         IN  IF n.chats = <<>>
             THEN LET state == [activeId |-> n.nextId + 1,
                                chats |-> <<FreshChat(n.nextId + 1, welcomeMessages)>>]
                  IN  Outcome(state, Stored(state), n.nextId + 1, TRUE)
             ELSE LET exists == parsed.activeId \in ChatIds(n)
                      state == [activeId |-> IF exists THEN parsed.activeId ELSE n.chats[1].id,
                                chats |-> n.chats]
                  IN  Outcome(state, Stored(state), n.nextId, TRUE)

\* createChat(state, welcomeMessages)
CreateChat(state, welcomeMessages, item, nid) ==
    LET next == [activeId |-> nid + 1,
                 chats |-> <<FreshChat(nid + 1, welcomeMessages)>> \o state.chats]
    IN  Outcome(next, Stored(next), nid + 1, TRUE)

\* deleteChat(state, chatId, welcomeMessages)
DeleteChat(state, chatId, welcomeMessages, item, nid) ==
    LET chats == SelectSeq(state.chats, LAMBDA c : c.id # chatId)
    IN  IF chats = <<>> THEN LoadChatSessions(welcomeMessages, item, nid)
        ELSE LET activeId == IF state.activeId = chatId THEN chats[1].id ELSE state.activeId
                 next == [activeId |-> IF \E i \in 1..Len(chats) : chats[i].id = activeId
                                       THEN activeId ELSE chats[1].id,
                          chats |-> chats]
             IN  Outcome(next, Stored(next), nid, TRUE)

\* mutant of SetActiveChat: the id is not looked up
SetActiveChatUnchecked(state, chatId, item, nid) ==
    LET next == [state EXCEPT !.activeId = chatId]
    IN  Outcome(next, Stored(next), nid, TRUE)

\* setActiveChat(state, chatId)
SetActiveChat(state, chatId, item, nid) ==
    IF chatId \notin ChatIds(state) THEN Outcome(state, item, nid, FALSE)
    ELSE LET next == [state EXCEPT !.activeId = chatId]
         IN  Outcome(next, Stored(next), nid, TRUE)

\* String(firstUser.text).trim().slice(0, 42)
TitleOf(text) == SubSeq(Trim(text), 1, Min(Len(Trim(text)), TitleMax))

\* the index of the first message with role "user" and a text, 0 if none
FirstUser(messages) ==
    IF \E i \in 1..Len(messages) : messages[i].role = "user" /\ messages[i].text # <<>>
    THEN CHOOSE i \in 1..Len(messages) :
            /\ messages[i].role = "user" /\ messages[i].text # <<>>
            /\ \A j \in 1..(i - 1) : ~(messages[j].role = "user" /\ messages[j].text # <<>>)
    ELSE 0

\* updateChatMessages(state, chatId, messages)
UpdateChatMessages(state, chatId, messages, item, nid) ==
    LET list == ArrayOrEmpty(messages)
        firstUser == FirstUser(list)
        updated(c) ==
            IF c.id # chatId THEN c
            ELSE [c EXCEPT !.title = IF firstUser # 0 /\ c.title = DefaultTitle
                                     THEN TitleOf(list[firstUser].text) ELSE c.title,
                           !.updatedAt = Now,
                           !.messages = list]
        next == [state EXCEPT !.chats = [i \in 1..Len(state.chats) |-> updated(state.chats[i])]]
    IN  Outcome(next, Stored(next), nid, TRUE)

\* updateChatSettings(state, chatId, patch)
UpdateChatSettings(state, chatId, patch, item, nid) ==
    LET merged == IF patch.isObject THEN patch.value.thinkingEffort ELSE "keep"
        updated(c) ==
            IF c.id # chatId THEN c
            ELSE LET effort == IF merged = "keep" THEN c.settings.thinkingEffort ELSE merged
                 IN  [c EXCEPT !.updatedAt = Now,
                               !.settings = [thinkingEffort |->
                                   IF effort \in {"extended", "standard"} THEN effort ELSE "null"]]
        next == [state EXCEPT !.chats = [i \in 1..Len(state.chats) |-> updated(state.chats[i])]]
    IN  Outcome(next, Stored(next), nid, TRUE)

\* what localStorage holds when the component is first rendered: nothing, a
\* text that is no JSON, the text null, an object without chats, an empty
\* list, one whole chat, two chats of which one has no id and the active id
\* names neither, and two chats of one id
StoredItems ==
    { NoItem, BadText, JsonNull,
      JsonObject(0, NotArray),
      JsonObject(91, Array(<<>>)),
      JsonObject(91, Array(<<RawChat(91, <<"t">>, "then", Array(<<>>), Object(DefaultSettings))>>)),
      JsonObject(93, Array(<<RawChat(91, <<>>, "", NotArray, NotObject),
                             RawChat(0, <<"t">>, "then", Array(<<>>), Object([thinkingEffort |-> "extended"]))>>)),
      JsonObject(92, Array(<<RawChat(92, <<>>, "then", NotArray, NotObject),
                             RawChat(92, <<"t">>, "then", NotArray, NotObject)>>)) }

\* an id of no chat
UnknownId == 99

\* the chat ids a caller passes
IdArguments(state) == IF state = Absent THEN {} ELSE ChatIds(state) \cup {UnknownId}

\* the message lists a caller passes: one with a user message, and no array
MessageArguments ==
    { Array(<< [role |-> "assistant", text |-> <<"h", "e", "y">>],
               [role |-> "user", text |-> <<" ", "h", "i">>] >>),
      NotArray }

\* the settings patches a caller passes
PatchArguments ==
    { Object([thinkingEffort |-> "turbo"]), NotObject }

InitChat ==
    /\ terms = <<>>
    /\ graph = EmptyGraph
    /\ op = "chat"
    /\ wordA = <<>>
    /\ wordB = <<>>
    /\ result = Absent
    /\ pc = "idle"
    /\ queue = <<>>
    /\ visited = {}
    /\ previous = NoCall
    /\ GameIdle
    /\ sessionState = Absent
    /\ storage \in StoredItems
    /\ nextId = 0
    /\ lastChatCall = NoChatCall

\* the outcome of a session function becomes the state of the component; a
\* throw leaves everything as it was
Apply(fn, chatId, outcome) ==
    IF outcome = Thrown
    THEN /\ lastChatCall' = [fn |-> fn, chatId |-> chatId, inStep |-> FALSE, saved |-> FALSE]
         /\ UNCHANGED <<sessionState, storage, nextId>>
    ELSE /\ sessionState' = outcome.state
         /\ storage' = outcome.storage
         /\ nextId' = outcome.nextId
         /\ lastChatCall' = [fn |-> fn, chatId |-> chatId,
                             inStep |-> (sessionState # Absent /\ storage = Stored(sessionState)),
                             saved |-> outcome.saved]

\* useState(() => loadChatSessions(WELCOME_MESSAGES))
CallLoadChatSessions ==
    /\ sessionState = Absent
    /\ lastChatCall = NoChatCall
    /\ Apply("loadChatSessions", 0, LoadChatSessions(WelcomeMessages, storage, nextId))
    /\ UNCHANGED <<engineVars, previous, gameVars>>

CallCreateChat ==
    /\ sessionState # Absent
    /\ nextId < MaxChats
    /\ Len(sessionState.chats) < MaxChats
    /\ Apply("createChat", 0, CreateChat(sessionState, WelcomeMessages, storage, nextId))
    /\ UNCHANGED <<engineVars, previous, gameVars>>

CallDeleteChat(chatId) ==
    /\ sessionState # Absent
    /\ Apply("deleteChat", chatId,
             DeleteChat(sessionState, chatId, WelcomeMessages, storage, nextId))
    /\ UNCHANGED <<engineVars, previous, gameVars>>

CallSetActiveChat(chatId) ==
    /\ sessionState # Absent
    /\ Apply("setActiveChat", chatId, SetActiveChat(sessionState, chatId, storage, nextId))
    /\ UNCHANGED <<engineVars, previous, gameVars>>

CallUpdateChatMessages(chatId, messages) ==
    /\ sessionState # Absent
    /\ Apply("updateChatMessages", chatId,
             UpdateChatMessages(sessionState, chatId, messages, storage, nextId))
    /\ UNCHANGED <<engineVars, previous, gameVars>>

CallUpdateChatSettings(chatId, patch) ==
    /\ sessionState # Absent
    /\ Apply("updateChatSettings", chatId,
             UpdateChatSettings(sessionState, chatId, patch, storage, nextId))
    /\ UNCHANGED <<engineVars, previous, gameVars>>

NextChat ==
    \/ CallLoadChatSessions
    \/ CallCreateChat
    \/ \E chatId \in IdArguments(sessionState) : CallDeleteChat(chatId)
    \/ \E chatId \in IdArguments(sessionState) : CallSetActiveChat(chatId)
    \/ \E chatId \in IdArguments(sessionState), messages \in MessageArguments :
          CallUpdateChatMessages(chatId, messages)
    \/ \E chatId \in IdArguments(sessionState), patch \in PatchArguments :
          CallUpdateChatSettings(chatId, patch)

SpecChat == InitChat /\ [][NextChat]_vars

----------------------------------------------------------------------------
(* Graph notions the claims are stated in, defined without the search *)

Symmetric(g) ==
    \A x \in DOMAIN g : \A y \in Range(g[x]) : y \in DOMAIN g /\ x \in Range(g[y])

\* p is a path of g: every consecutive pair is adjacent
IsPathOf(p, g) ==
    \A i \in 1..(Len(p) - 1) : p[i + 1] \in Range(Neighbors(g, p[i]))

\* the words reached from a through at most k edges
RECURSIVE ReachWithin(_, _, _)
ReachWithin(g, a, k) ==
    IF k <= 0 THEN {a}
    ELSE LET r == ReachWithin(g, a, k - 1)
         IN  r \cup UNION {Range(Neighbors(g, x)) : x \in r}

\* the words reached from a through one edge or more
Reachable(g, a) ==
    UNION {ReachWithin(g, x, Cardinality(DOMAIN g)) : x \in Range(Neighbors(g, a))}

ChainGraph ==
    (W("a") :> <<W("b")>>) @@ (W("b") :> <<W("a"), W("c")>>) @@ (W("c") :> <<W("b")>>)

normA == Normalize(wordA)
normB == Normalize(wordB)

----------------------------------------------------------------------------
(* Claims on getSimilarityPath, checked under SpecPath *)

\* C2: on a symmetric graph, for distinct keys a and b, a returned path starts
\* at a, ends at b, follows edges of the graph and no path from a to b has fewer
\* edges; on {a:[b], b:[a,c], c:[b]} the result for (a, c) is [a, b, c].
C2_ShortestPath ==
    (pc = "done" /\ normA # normB /\ normA \in DOMAIN graph /\ normB \in DOMAIN graph)
    => /\ (Symmetric(graph) /\ ~result.isNull)
            => /\ Len(result.words) >= 2
               /\ result.words[1] = normA
               /\ result.words[Len(result.words)] = normB
               /\ IsPathOf(result.words, graph)
               /\ normB \notin ReachWithin(graph, normA, Len(result.words) - 2)
       /\ (graph = ChainGraph /\ normA = W("a") /\ normB = W("c"))
            => result = PathOf(<<W("a"), W("b"), W("c")>>)

\* on the ring of five words, where two routes of different lengths join the
\* words, the two-edge route was returned
C2_Witness ==
    /\ pc = "done"
    /\ graph = BuildThesaurusGraph(Ring(5))
    /\ Symmetric(graph)
    /\ ~result.isNull
    /\ Len(result.words) = 3

\* C3: for distinct non-empty normalized words the result is null exactly when
\* a or b is no key of the graph or b is not reachable from a, and a search that
\* entered its loop ends.
C3_NullIffUnreachable ==
    (pc = "done" /\ normA # normB /\ normA # <<>> /\ normB # <<>>)
    => (result.isNull <=> (\/ normA \notin DOMAIN graph
                           \/ normB \notin DOMAIN graph
                           \/ normB \notin Reachable(graph, normA)))

C3_NullIffUnreachableAndTerminates ==
    /\ []C3_NullIffUnreachable
    /\ (pc = "loop") ~> (pc = "done")

\* the search ran over several words of the graph and found no way to b
C3_Witness ==
    /\ pc = "done"
    /\ result.isNull
    /\ normA \in DOMAIN graph
    /\ normB \in DOMAIN graph
    /\ normA # normB
    /\ Cardinality(visited) >= 2

\* C4 as stated: getSimilarityPath(w, w, graph) = [w] for every non-empty w.
C4_IdentityRaw ==
    (pc = "done" /\ wordA = wordB /\ wordA # <<>>) => result = PathOf(<<wordA>>)

\* C4 amended: when w is not blank, getSimilarityPath(w, w, graph) is the
\* one-element path holding the trimmed, lower-cased w, key of the graph or not;
\* when w is blank it is null.
C4_IdentityNormalized ==
    (pc = "done" /\ wordA = wordB)
    => result = IF normA # <<>> THEN PathOf(<<normA>>) ELSE Absent

\* the identity path of a word written in upper case that is no key of the graph
C4_Witness ==
    /\ pc = "done"
    /\ wordA = wordB
    /\ wordA # normA
    /\ normA # <<>>
    /\ normA \notin DOMAIN graph
    /\ result = PathOf(<<normA>>)

----------------------------------------------------------------------------
(* Claims on buildThesaurusGraph and scoreGuess, checked under Spec *)

\* C1: the graph returned by buildThesaurusGraph is symmetric: when y is in the
\* neighbor list of x, y is a key and x is in the neighbor list of y, also when
\* y has no term of its own.
C1_GraphSymmetric ==
    op = "buildThesaurusGraph" => Symmetric(result)

\* a graph with an edge to a word that is the word of no term
C1_Witness ==
    /\ op = "buildThesaurusGraph"
    /\ \E x \in DOMAIN result : \E y \in Range(result[x]) : Find(terms, y) = 0

\* C5: scoreGuess(w, w, terms) is score 100 with no connections, for every w
\* and every term list, also when w is the word of no term.
C5_ExactMatch ==
    (op = "scoreGuess" /\ wordA = wordB)
    => (result.score = 100 /\ result.connections = <<>>)

\* an exact match on a word that is the word of no term
C5_Witness ==
    /\ op = "scoreGuess"
    /\ wordA = wordB
    /\ Find(terms, normB) = 0
    /\ result.score = 100

\* C6: the score is an integer from 0 to 100, and it is 100 only when the
\* normalized guess equals the normalized target.
C6_ScoreRange ==
    op = "scoreGuess"
    => /\ result.score \in 0..100
       /\ result.score = 100 => normA = normB

\* a guess six edges away from the target, scored at the floor
C6_Witness ==
    /\ op = "scoreGuess"
    /\ normA # normB
    /\ result.score = 10
    /\ \E i \in 1..Len(result.connections) :
          /\ result.connections[i].type = "path"
          /\ Len(result.connections[i].words) >= 7

ChainTerms == Chain(3, "both", FALSE)

TargetTerm == terms[Find(terms, normB)]
GuessTerm == terms[Find(terms, normA)]
GuessKnown == Find(terms, normA) # 0
TargetSynSet == Range(NormalizeAll(TargetTerm.synonyms))
TargetAntSet == Range(NormalizeAll(TargetTerm.antonyms))
GuessSynSet == IF GuessKnown THEN Range(NormalizeAll(GuessTerm.synonyms)) ELSE {}
GuessAntSet == IF GuessKnown THEN Range(NormalizeAll(GuessTerm.antonyms)) ELSE {}

FirstRule ==
    IF normA \in TargetSynSet THEN "target synonym"
    ELSE IF normA \in TargetAntSet THEN "target antonym"
    ELSE IF normB \in GuessSynSet THEN "guess synonym"
    ELSE IF normB \in GuessAntSet THEN "guess antonym"
    ELSE IF TargetSynSet \cap GuessSynSet # {} THEN "shared synonym"
    ELSE IF GuessKnown /\ GuessTerm.category = TargetTerm.category THEN "same category"
    ELSE "none"

RuleType(rule) ==
    CASE rule \in {"target synonym", "guess synonym"} -> "synonym"
      [] rule \in {"target antonym", "guess antonym"} -> "antonym"
      [] OTHER -> rule

RuleScores(rule) ==
    CASE rule \in {"target synonym", "guess synonym"} -> {85}
      [] rule \in {"target antonym", "guess antonym"} -> {35}
      [] rule = "shared synonym" -> 51..75
      [] rule = "same category" -> {20}

\* the connections of result that are not the path descriptor
RelationConnections == SelectSeq(result.connections, LAMBDA c : c.type # "path")
HasPathConnection == \E i \in 1..Len(result.connections) : result.connections[i].type = "path"

\* a call of scoreGuess that got past the exact match and the target lookup
Scored == op = "scoreGuess" /\ normA # normB /\ Find(terms, normB) # 0

\* C8: the relation rules are exclusive and ordered (target's synonyms 85,
\* target's antonyms 35, guess term's synonyms 85, guess term's antonyms 35,
\* shared synonyms, same category 20, else 0): the relation recorded and the
\* score are those of the first rule that applies, and no later rule adds one.
C8_FirstRuleWins ==
    Scored
    => IF FirstRule = "none"
       THEN /\ RelationConnections = <<>>
            /\ ~HasPathConnection => result.score = 0
       ELSE /\ Len(RelationConnections) = 1
            /\ RelationConnections[1].type = RuleType(FirstRule)
            /\ result.score \in RuleScores(FirstRule)

\* the guess is in the target's synonym list and in its antonym list, and the
\* guess's own term matches later rules too
C8_Witness ==
    /\ Scored
    /\ normA \in TargetSynSet
    /\ normA \in TargetAntSet
    /\ GuessKnown
    /\ normB \in GuessAntSet
    /\ result.score = 85

\* C9: a guess in the target's antonym list and not in its synonym list scores
\* 35 with an "antonym" connection, also when the guess is the word of no term
\* and no path links guess and target.
C9_TargetAntonym ==
    (Scored /\ normA \in TargetAntSet /\ normA \notin TargetSynSet)
    => /\ result.score = 35
       /\ Connection("antonym", <<normA, normB>>) \in Range(result.connections)

\* an antonym that is no term and has no path to the target
C9_Witness ==
    /\ Scored
    /\ normA \in TargetAntSet
    /\ normA \notin TargetSynSet
    /\ ~GuessKnown
    /\ ~HasPathConnection
    /\ result.score = 35

\* C10: when the shared-synonym rule is reached with n >= 1 synonyms common to
\* the guess term and the target term, the score is 50 + min(8n, 25), at most
\* 75, and the "shared synonym" connection lists exactly the n shared words.
SharedWords == TargetSynSet \cap GuessSynSet

C10_SharedSynonymScore ==
    (Scored /\ FirstRule = "shared synonym")
    => /\ result.score = 50 + Min(8 * Cardinality(SharedWords), 25)
       /\ result.score <= 75
       /\ \E i \in 1..Len(result.connections) :
             /\ result.connections[i].type = "shared synonym"
             /\ Len(result.connections[i].words) = Cardinality(SharedWords)
             /\ Range(result.connections[i].words) = SharedWords

\* C10 on term lists whose synonym lists name no word twice: there the claim holds
NoRepeatedSynonym ==
    \A i \in 1..Len(terms) :
        LET syns == NormalizeAll(terms[i].synonyms)
        IN  \A j, k \in 1..Len(syns) : j # k => syns[j] # syns[k]

C10_SharedSynonymScoreNoRepeat ==
    NoRepeatedSynonym => C10_SharedSynonymScore

\* the words of the path descriptor of result, <<>> when there is none
PathWordsOf(connections) ==
    IF \E i \in 1..Len(connections) : connections[i].type = "path"
    THEN connections[CHOOSE i \in 1..Len(connections) : connections[i].type = "path"].words
    ELSE <<>>

\* C11: a score awarded through the shared-synonym rule lies between 60 and 75.
C11_SharedSynonymRange ==
    (Scored /\ FirstRule = "shared synonym") => result.score \in 60..75

\* C11 as the code has it: the shared-synonym rule gives 58, 66, 74 or 75
C11_SharedSynonymValues ==
    (Scored /\ FirstRule = "shared synonym") => result.score \in {58, 66, 74, 75}

\* C12: a score awarded from graph distance alone (no relation rule applied, a
\* path exists) lies between 10 and 50.
C12_PathScoreRange ==
    (Scored /\ FirstRule = "none" /\ HasPathConnection) => result.score \in 10..50

\* C12 on term lists whose words are distinct: a path of three words scores 55
C12_DistinctWords55 ==
    (Scored /\ FirstRule = "none" /\ HasPathConnection /\ Len(PathWordsOf(result.connections)) = 3)
    => result.score = 55

\* the score a relation descriptor stands for
ConnectionScore(c) ==
    CASE c.type = "synonym" -> 85
      [] c.type = "antonym" -> 35
      [] c.type = "shared synonym" -> 50 + Min(8 * Len(c.words), 25)
      [] c.type = "same category" -> 20

FeedbackFor(score) ==
    CASE score >= 80 -> "Very close! Strong connection found."
      [] score \in 60..79 -> "Good guess! Related through shared concepts."
      [] score \in 40..59 -> "Somewhat related - keep trying!"
      [] score \in 20..39 -> "Loosely connected. Think more closely."
      [] score < 20 -> "No clear connection found. Try a synonym or related concept."

\* C14: for a non-exact guess with a known target the feedback is decided by the
\* final score alone: >= 80 very close, 60-79 good, 40-59 somewhat related,
\* 20-39 loosely connected, below 20 no clear connection.
C14_FeedbackByScore ==
    Scored => result.feedback = FeedbackFor(result.score)

\* a score on a threshold: a path of four words scores 40, "somewhat related"
C14_Witness ==
    /\ Scored
    /\ result.score = 40
    /\ result.feedback = "Somewhat related - keep trying!"

\* C15: a target that differs from the guess and is the word of no term gives
\* score 0, the "target not found" feedback and no connections; no relation rule
\* and no path is evaluated.
C15_TargetNotFound ==
    (op = "scoreGuess" /\ normA # normB /\ Find(terms, normB) = 0)
    => result = [score |-> 0, feedback |-> "Target word not found in dictionary.",
                 connections |-> <<>>]

\* the target is no term although the guess's term lists it as a synonym, so
\* that the graph holds an edge between them
C15_Witness ==
    /\ op = "scoreGuess"
    /\ normA # normB
    /\ Find(terms, normB) = 0
    /\ GuessKnown
    /\ normB \in GuessSynSet
    /\ result.score = 0

\* The rules of findSimilarities as the claims word them, read off the term lists.
QueryIndex == Find(terms, normA)
QueryKnown == QueryIndex # 0
QuerySynSet == IF QueryKnown THEN Range(NormalizeAll(terms[QueryIndex].synonyms)) ELSE {}
SynSetOf(i) == Range(NormalizeAll(terms[i].synonyms))
AntSetOf(i) == Range(NormalizeAll(terms[i].antonyms))
ResultsOf(i) == SelectSeq(result, LAMBDA r : r.termIndex = i)

\* C16: the output of findSimilarities(w, terms) holds no result whose term's
\* word equals w case-insensitively (nor one equal to w up to outer blanks).
C16_NoSelfComparison ==
    op = "findSimilarities"
    => \A k \in 1..Len(result) :
          /\ ToLowerCase(result[k].term.word) # ToLowerCase(wordA)
          /\ Normalize(result[k].term.word) # normA

\* the query is the word of a term in another spelling, and other terms answer
C16_Witness ==
    /\ op = "findSimilarities"
    /\ QueryKnown
    /\ terms[QueryIndex].word # wordA
    /\ Len(result) > 0

\* C17: the list returned by findSimilarities is in descending order of
\* strength, and results of equal strength stand in the order of their terms in
\* the term list.
C17_SortedStable ==
    op = "findSimilarities"
    => \A i, j \in 1..Len(result) :
          i < j => \/ result[i].strength > result[j].strength
                   \/ /\ result[i].strength = result[j].strength
                      /\ result[i].termIndex < result[j].termIndex

\* the sort moved a later term in front of an earlier one, and two results tie
C17_Witness ==
    /\ op = "findSimilarities"
    /\ \E i, j \in 1..Len(result) : i < j /\ result[i].termIndex > result[j].termIndex
    /\ \E i, j \in 1..Len(result) : i < j /\ result[i].strength = result[j].strength

\* the first rule that applies to the term at index i, and its strength
FirstSimilarityRule(i) ==
    IF normA \in SynSetOf(i) THEN "synonym"
    ELSE IF normA \in AntSetOf(i) THEN "antonym"
    ELSE IF QueryKnown /\ QuerySynSet \cap SynSetOf(i) # {} THEN "shared synonym"
    ELSE IF QueryKnown /\ terms[i].category = terms[QueryIndex].category THEN "same category"
    ELSE "none"

RuleStrength(rule, i) ==
    CASE rule = "synonym" -> 90
      [] rule = "antonym" -> 40
      [] rule = "shared synonym" -> 60 + Min(5 * Cardinality(QuerySynSet \cap SynSetOf(i)), 20)
      [] rule = "same category" -> 30

\* the terms the rules are applied to: a non-blank word other than the query
OtherTerms ==
    {i \in 1..Len(terms) : Normalize(terms[i].word) \notin {<<>>, normA}}

\* C18: in findSimilarities each term other than the query term yields at most
\* one result, that of the first rule that applies (synonym 90, antonym 40, n
\* shared synonyms 60 + min(5n, 20), same category 30), a term matching no rule
\* is left out, and every strength is one of 30, 40, 65, 70, 75, 80, 90.
C18_FirstRuleStrength ==
    (op = "findSimilarities" /\ normA # <<>>)
    => /\ \A i \in OtherTerms :
            LET rule == FirstSimilarityRule(i)
            IN  IF rule = "none" THEN ResultsOf(i) = <<>>
                ELSE /\ Len(ResultsOf(i)) = 1
                     /\ ResultsOf(i)[1].connection.kind = rule
                     /\ ResultsOf(i)[1].strength = RuleStrength(rule, i)
       /\ \A k \in 1..Len(result) : result[k].strength \in {30, 40, 65, 70, 75, 80, 90}

\* C18 on term lists whose synonym lists name no word twice: there the claim holds
C18_FirstRuleStrengthNoRepeat ==
    NoRepeatedSynonym => C18_FirstRuleStrength

\* C18 without the count of shared words: one result of the first rule for each
\* term, and the strengths of the list
C18_FirstRuleKind ==
    (op = "findSimilarities" /\ normA # <<>>)
    => /\ \A i \in OtherTerms :
            LET rule == FirstSimilarityRule(i)
            IN  IF rule = "none" THEN ResultsOf(i) = <<>>
                ELSE /\ Len(ResultsOf(i)) = 1
                     /\ ResultsOf(i)[1].connection.kind = rule
                     /\ rule # "shared synonym"
                        => ResultsOf(i)[1].strength = RuleStrength(rule, i)
       /\ \A k \in 1..Len(result) : result[k].strength \in {30, 40, 65, 70, 75, 80, 90}

\* C19: when the query word is the word of no term the call returns a list
\* (no error) whose results all have the connection "synonym" or "antonym":
\* no shared-synonym and no same-category result is produced.
C19_UnknownWord ==
    (op = "findSimilarities" /\ ~QueryKnown)
    => /\ result \in Seq(Range(result))
       /\ \A k \in 1..Len(result) :
             /\ result[k].connection \in {Label("synonym", <<>>), Label("antonym", <<>>)}
             /\ result[k].strength \in {90, 40}

\* an unknown word that a term lists as a synonym, another term being left out
C19_Witness ==
    /\ op = "findSimilarities"
    /\ ~QueryKnown
    /\ normA # <<>>
    /\ \E k \in 1..Len(result) : result[k].connection.kind = "synonym"
    /\ \E i \in OtherTerms : ResultsOf(i) = <<>>

\* u is the non-blank word of a term whose synonym list holds the non-blank v
SynonymEdge(u, v) ==
    /\ u # <<>>
    /\ v # <<>>
    /\ \E i \in 1..Len(terms) : Normalize(terms[i].word) = u /\ v \in SynSetOf(i)

TermWordSet == {Normalize(terms[i].word) : i \in 1..Len(terms)} \ {<<>>}
SynonymWordSet == (UNION {SynSetOf(i) : i \in {j \in 1..Len(terms) : Normalize(terms[j].word) # <<>>}}) \ {<<>>}

\* C20: buildThesaurusGraph derives the graph from the synonym lists only: its
\* keys are the term words and their synonyms, two words are neighbors exactly
\* when one is the word of a term whose synonym list holds the other, antonym
\* lists add no key and no edge, and no neighbor list names a word twice.
C20_SynonymEdgesOnly ==
    op = "buildThesaurusGraph"
    => /\ DOMAIN result = TermWordSet \cup SynonymWordSet
       /\ \A u \in DOMAIN result :
             /\ Range(result[u]) = {v \in DOMAIN result : SynonymEdge(u, v) \/ SynonymEdge(v, u)}
             /\ \A j, k \in 1..Len(result[u]) : j # k => result[u][j] # result[u][k]

\* a term names a synonym twice and has an antonym that is no key of the graph
C20_Witness ==
    /\ op = "buildThesaurusGraph"
    /\ \E i \in 1..Len(terms) :
          /\ Normalize(terms[i].word) # <<>>
          /\ \E j, k \in 1..Len(terms[i].synonyms) :
                j # k /\ Normalize(terms[i].synonyms[j]) = Normalize(terms[i].synonyms[k])
          /\ \E x \in AntSetOf(i) : x # <<>> /\ x \notin DOMAIN result

\* the number of blanks in a text
Blanks(text) == Cardinality({k \in 1..Len(text) : text[k] = " "})

\* v is the text of the first five blank-separated words of definition,
\* followed by three dots
IsDefinitionPrefix(v, definition) ==
    /\ Len(v) >= 3
    /\ SubSeq(v, Len(v) - 2, Len(v)) = <<".", ".", ".">>
    /\ LET body == SubSeq(v, 1, Len(v) - 3)
       IN  /\ Len(body) <= Len(definition)
           /\ body = SubSeq(definition, 1, Len(body))
           /\ Blanks(body) <= 4
           /\ \/ body = definition
              \/ definition[Len(body) + 1] = " " /\ Blanks(body) = 4

\* C21: for a non-empty term list generateChallenge returns a challenge whose
\* targetWord is the word of one of the terms, whose hints are the four texts
\* category, synonym count, upper-cased first letter and definition prefix of
\* that same term, in this order, and whose maxGuesses is 5.
C21_ChallengeStructure ==
    (op = "generateChallenge" /\ terms # <<>>)
    => /\ DOMAIN result = {"targetWord", "hints", "maxGuesses"}
       /\ result.maxGuesses = 5
       /\ Len(result.hints) = 4
       /\ \E i \in 1..Len(terms) :
             /\ result.targetWord = terms[i].word
             /\ result.hints[1] = Hint("Category: ", terms[i].category)
             /\ result.hints[2] = Hint("known synonyms", Len(terms[i].synonyms))
             /\ result.hints[3].label = "First letter: "
             /\ ToLowerCase(<<result.hints[3].value>>) = ToLowerCase(<<terms[i].word[1]>>)
             /\ result.hints[3].value \notin Range(LowerChars)
             /\ result.hints[4].label = "Definition hint: "
             /\ IsDefinitionPrefix(result.hints[4].value, terms[i].definition)

\* the term a of the list with definitions: six words, of which five are shown
C21_Witness ==
    /\ op = "generateChallenge"
    /\ terms = DefinedTerms
    /\ result.targetWord = W("a")
    /\ result.hints[3].value = "A"
    /\ result.hints[4].value = <<"a", " ", "b", " ", "c", " ", "d", " ", "e", ".", ".", ".">>

\* C22: generateChallenge on an empty term list fails with an error and returns
\* no challenge; it is the only operation that fails: on an empty term list
\* buildThesaurusGraph returns the empty graph, findSimilarities the empty
\* list, getSimilarityPath null (or the one word asked twice) and scoreGuess a
\* guess result, and on a non-empty list generateChallenge returns a challenge.
C22_EmptyTermList ==
    /\ op = "generateChallenge" => (result = Thrown <=> terms = <<>>)
    /\ terms = <<>>
       => /\ op = "buildThesaurusGraph" => result = EmptyGraph
          /\ op = "findSimilarities" => result = <<>>
          /\ op = "getSimilarityPath" => result \in {Absent, PathOf(<<normA>>)}
          /\ op = "scoreGuess"
             => /\ DOMAIN result = {"score", "feedback", "connections"}
                /\ result.score \in {0, 100}

\* generateChallenge has failed on the empty list after scoreGuess returned a
\* result for it
C22_Witness ==
    /\ terms = <<>>
    /\ op = "generateChallenge"
    /\ result = Thrown
    /\ previous.op = "scoreGuess"
    /\ previous.result.score = 0

RelationTypes == {"synonym", "antonym", "shared synonym", "same category"}

\* C25: the connections of scoreGuess hold at most one relation descriptor
\* (synonym, antonym, shared synonym, same category) followed by at most one
\* "path" descriptor, and the path descriptor is there exactly when
\* getSimilarityPath finds a path from guess to target in the graph built from
\* the terms, whatever relation rule fired.
C25_ConnectionsAccumulate ==
    Scored
    => LET path == GetSimilarityPath(normA, normB, BuildThesaurusGraph(terms))
           n == Len(result.connections)
       IN  /\ n <= 2
           /\ \A i \in 1..n : result.connections[i].type \in RelationTypes \cup {"path"}
           /\ \A i \in 1..n : result.connections[i].type \in RelationTypes => i = 1
           /\ \A i \in 1..n : result.connections[i].type = "path" => i = n
           /\ n = 2 => result.connections[1].type # "path"
           /\ HasPathConnection <=> ~path.isNull
           /\ ~path.isNull => result.connections[n] = Connection("path", path.words)

\* a synonym relation and the path descriptor side by side
C25_Witness ==
    /\ Scored
    /\ Len(result.connections) = 2
    /\ result.connections[1].type = "synonym"
    /\ result.connections[2].type = "path"
    /\ result.score = 85

\* the operations of the engine that draw nothing at random
DeterministicOps == {"buildThesaurusGraph", "findSimilarities", "getSimilarityPath", "scoreGuess"}

LastGuess(gs) == gs[Len(gs)]

\* C23: the word is revealed exactly when a submitted guess scored 100 (the
\* guess is the target word) or was the fifth guess of the round; while the
\* word is revealed no guess is accepted, so that a round never holds more than
\* 5 guesses; the next challenge starts with no guesses, one hint and nothing
\* revealed.
C23_RevealAfterFiveOrExact ==
    /\ [](/\ Len(guesses) <= 5
          /\ revealed <=> /\ guesses # <<>>
                          /\ \/ LastGuess(guesses).score = 100
                             \/ Len(guesses) = 5
          /\ \A i \in 1..Len(guesses) :
                /\ guesses[i].score = 100
                   <=> Normalize(guesses[i].word) = Normalize(challenge.targetWord)
                /\ guesses[i].score = 100 => i = Len(guesses))
    /\ [][/\ (revealed /\ guesses' # guesses)
             => /\ guesses' = <<>>
                /\ hintsShown' = 1
                /\ ~revealed'
                /\ challenge' # Absent
          /\ (~revealed /\ guesses' # guesses)
             => /\ Len(guesses') = Len(guesses) + 1
                /\ SubSeq(guesses', 1, Len(guesses)) = guesses]_vars

\* a second round that ended on its fifth guess, none of them right
C23_Witness ==
    /\ round = 2
    /\ revealed
    /\ Len(guesses) = 5
    /\ LastGuess(guesses).score # 100

\* the hints in the order of the claim
HintOrder == <<"Category: ", "known synonyms", "First letter: ", "Definition hint: ">>

\* C24: a round starts with one hint shown, the category, and each incorrect
\* guess unlocks one more in the order synonym count, first letter, partial
\* definition: while the word is not revealed the number of hints shown is
\* min(1 + guesses made, 4), and it never decreases within a round.
C24_HintsUnlock ==
    /\ []((challenge # Absent /\ ~revealed)
          => /\ hintsShown = Min(1 + Len(guesses), 4)
             /\ Len(HintsRendered) = hintsShown
             /\ \A k \in 1..hintsShown : HintsRendered[k].label = HintOrder[k])
    /\ [][(round' = round /\ challenge # Absent) => hintsShown' >= hintsShown]_vars

\* four incorrect guesses made, all four hints shown
C24_Witness ==
    /\ challenge # Absent
    /\ ~revealed
    /\ Len(guesses) = 4
    /\ hintsShown = 4
    /\ HintsRendered[4].label = "Definition hint: "

\* the target words generateChallenge can return for the term list
ChallengeTargets ==
    {GenerateChallenge(terms, idx).targetWord : idx \in RandomIndexes(terms)}

\* C27: for a non-empty term list, a target word returned by generateChallenge
\* and any guess, scoreGuess never returns the "target not found" result.
C27_TargetResolves ==
    (op = "scoreGuess" /\ terms # <<>> /\ wordB \in ChallengeTargets)
    => /\ result # TargetNotFound
       /\ result.feedback # "Target word not found in dictionary."
       /\ normA # normB => Find(terms, normB) # 0

\* the target is the word of a term written with a capital and a blank, the
\* guess is the word of no term
C27_Witness ==
    /\ op = "scoreGuess"
    /\ terms # <<>>
    /\ wordB \in ChallengeTargets
    /\ wordB # normB
    /\ Find(terms, normA) = 0
    /\ normA # <<>>
    /\ result.score = 0

\* C28: the total score changes only when the word of the round is revealed,
\* and then by the score of the guess that ended the round; starting a new
\* challenge raises the round number by one and leaves the total score as it
\* was.
C28_TotalScoreAtReveal ==
    [][/\ (~revealed /\ revealed')
          => totalScore' = totalScore + LastGuess(guesses').score
       /\ totalScore' # totalScore => (~revealed /\ revealed')
       /\ (revealed /\ ~revealed')
          => /\ round' = round + 1
             /\ totalScore' = totalScore
       /\ round' # round => (revealed /\ ~revealed')]_vars

\* a second round revealed, whose earlier guesses scored and were not added
C28_Witness ==
    /\ round = 2
    /\ revealed
    /\ Len(guesses) = 5
    /\ guesses[1].score > 0
    /\ LastGuess(guesses).score = 0
    /\ totalScore = 100

\* C29: after deleteChat(state, chatId, welcomeMessages), state being what
\* localStorage holds, the returned state has no chat of the id chatId, also
\* when that chat was the only one.
C29_DeletedChatIsGone ==
    (lastChatCall.fn = "deleteChat" /\ lastChatCall.inStep)
    => lastChatCall.chatId \notin ChatIds(sessionState)

\* C29 where a chat of another id remains: the chat of the id is gone
C29_DeletedWhenOthersRemain ==
    [][\A chatId \in IdArguments(sessionState) :
          (CallDeleteChat(chatId) /\ ChatIds(sessionState) \ {chatId} # {})
          => /\ chatId \notin ChatIds(sessionState')
             /\ ChatIds(sessionState') = ChatIds(sessionState) \ {chatId}]_vars

\* deleting the only chat, state being what localStorage holds, gives back the
\* state as it was: loadChatSessions reads the chat from localStorage again
C29_OnlyChatComesBack ==
    [][\A chatId \in IdArguments(sessionState) :
          (/\ CallDeleteChat(chatId)
           /\ ChatIds(sessionState) = {chatId}
           /\ storage = Stored(sessionState))
          => sessionState' = sessionState]_vars

\* C30: from loadChatSessions on, after any calls of createChat, deleteChat,
\* setActiveChat, updateChatMessages and updateChatSettings, the session state
\* has at least one chat and its activeId is the id of one of its chats;
\* setActiveChat with an id of no chat returns the state as it was and writes
\* nothing to localStorage.
C30_ActiveChatExists ==
    /\ [](sessionState # Absent
          => /\ Len(sessionState.chats) >= 1
             /\ sessionState.activeId \in ChatIds(sessionState))
    /\ [][\A chatId \in IdArguments(sessionState) :
             (CallSetActiveChat(chatId) /\ chatId \notin ChatIds(sessionState))
             => /\ sessionState' = sessionState
                /\ storage' = storage
                /\ ~lastChatCall'.saved]_vars

\* setActiveChat was called with an id of no chat on a list of two chats whose
\* active chat is the second
C30_Witness ==
    /\ sessionState # Absent
    /\ lastChatCall.fn = "setActiveChat"
    /\ lastChatCall.chatId = UnknownId
    /\ ~lastChatCall.saved
    /\ Len(sessionState.chats) = 2
    /\ sessionState.activeId = sessionState.chats[2].id
    /\ sessionState.activeId # sessionState.chats[1].id

====
